---- MODULE Spec2Model ----
(***************************************************************************)
(* A model of the AT-TPC harmonizer (src/src/main.rs, reader.rs,           *)
(* writer.rs, scalers.rs): the range scanner, the MergerReader, the        *)
(* HarmonicWriter, the scaler aggregator, the harmonize() loop that wires  *)
(* them together, and the part of main() that leads to it.                 *)
(*                                                                         *)
(* The HDF5 container is modelled by what the code asks of it: which       *)
(* top-level groups a run file has, its declared event bounds, which       *)
(* events are stored and with which payloads, and its scaler records.      *)
(* File sizes are counted in abstract size units.                          *)
(***************************************************************************)
EXTENDS Integers, Sequences, FiniteSets, TLC

\* ------------------------------------------------------------------ bounds
NumRuns == 2          \* run numbers on disk are 1..NumRuns
MaxEvent == 1         \* declared event bounds and stored indices lie in 0..MaxEvent
MaxThreshold == 4     \* harmonic_size ranges over 0..MaxThreshold size units
MaxEmptySize == 2     \* size of a freshly initialised output file, in units
MaxScaler == 3        \* scaler indices lie in 0..MaxScaler
MaxWrites == 5        \* writes issued to a writer driven on its own
MaxEos == 2           \* read_event calls issued after the first end-of-stream

Runs == 1..NumRuns
EventIdx == 0..MaxEvent
ScalerIdx == 0..MaxScaler

VARIABLES
    merger_path_exists,   \* config.merger_path.exists()
    harmonic_path_exists, \* config.harmonic_path.exists()
    same_dir,      \* merger_path and harmonic_path name the same directory
    console,       \* what main printed about the two paths, "" when nothing
    disk,          \* run number -> the input file found at construct_run_path(merger_path,
                   \* run) when the program starts
    min_run,       \* Config.min_run
    max_run,       \* Config.max_run
    harmonic_size, \* Config.get_harmonic_size(), in size units
    empty_size,    \* on-disk size of an output file right after init_file
    pc,            \* position in harmonize(): which call comes next
    err,           \* the error harmonize() returned, "" while there is none
    total_events,  \* result of get_total_merger_events
    reader,        \* the MergerReader's fields
    emitted,       \* every event read_event has returned Some(..) for, in order
    eos,           \* number of read_event calls that returned None
    writer,        \* the HarmonicWriter's fields
    out,           \* output files: out[n] is run_{n}.h5 under harmonic_path
    written,       \* every event passed to write, in order
    scalers,       \* the rows accumulated by process_scalers
    scaler_file    \* the rows written to scalers.parquet, or "none"

vars == <<merger_path_exists, harmonic_path_exists, same_dir, console, disk, min_run,
          max_run, harmonic_size, empty_size, pc, err, total_events, reader, emitted, eos,
          writer, out, written, scalers, scaler_file>>

\* ------------------------------------------------------------ input files
\* One input run file, as far as the code can observe it.
\*   exists      the path exists and opens as an HDF5 file
\*   hasMeta     top level has the group "meta"    (legacy, merger 0.1.0)
\*   hasEvents   top level has the group "events"  (current, merger 0.2.0)
\*   min_event, max_event   the declared event bounds
\*   stored      indices whose event data is in the file (current: the group
\*               events/event_i; legacy: the datasets get/evt{i}_data and
\*               frib/evt/evt{i}_1903, each when the index carries that payload)
\*   get, frib   the indices whose event carries a GET payload, a FRIB payload
\*   groups      legacy schema: the groups get and frib/evt exist
\*   hasScalers  the scaler group exists (legacy frib/scaler, current scalers)
\*   sbounds     the current-schema scaler group has its min_event and max_event
\*   smin, smax  current schema: the scaler group's min_event/max_event
\*   srecs       indices of the scaler records in the file
AbsentFile ==
    [exists |-> FALSE, hasMeta |-> FALSE, hasEvents |-> FALSE,
     min_event |-> 0, max_event |-> 0, stored |-> {}, get |-> {}, frib |-> {},
     groups |-> FALSE, hasScalers |-> FALSE, sbounds |-> FALSE, smin |-> 0, smax |-> 0,
     srecs |-> {}]

\* A file whose top level has neither "meta" nor "events".
InvalidFile == [AbsentFile EXCEPT !.exists = TRUE]

IsLegacy(f) == f.exists /\ f.hasMeta
IsCurrent(f) == f.exists /\ ~f.hasMeta /\ f.hasEvents
IsInvalid(f) == f.exists /\ ~f.hasMeta /\ ~f.hasEvents

\* An output file of the writer as a reader of the same path finds it: the group
\* events with its min_event and max_event attributes, one group event_i per
\* stored event with the payloads written for it, and no scaler group.
AsInputFile(o) ==
    [exists |-> TRUE, hasMeta |-> FALSE, hasEvents |-> TRUE,
     min_event |-> o.min_event, max_event |-> o.max_event, stored |-> DOMAIN o.events,
     get |-> {i \in DOMAIN o.events : o.events[i].get},
     frib |-> {i \in DOMAIN o.events : o.events[i].frib},
     groups |-> FALSE, hasScalers |-> FALSE, sbounds |-> FALSE, smin |-> 0, smax |-> 0,
     srecs |-> {}]

\* The file at construct_run_path(merger_path, run) as it is now.  Both the
\* reader and the writer build their paths with construct_run_path, so when the
\* two directories are the same the path of input run n is the path of output
\* file n, and File::create has replaced what was there.  Nothing else exists
\* outside 1..NumRuns.
FileAt(run) ==
    IF same_dir /\ run \in DOMAIN out THEN AsInputFile(out[run])
    ELSE IF run \in DOMAIN disk THEN disk[run]
    ELSE AbsentFile

\* ------------------------------------------------------------ range scanner
\* What one run adds to `events` in get_total_merger_events.  The legacy branch
\* computes in f64 and casts to u64 (a negative difference saturates to 0); the
\* current branch subtracts in u64.
scan_run(f) ==
    IF ~f.exists THEN 0
    ELSE IF f.hasMeta
         THEN (IF f.max_event >= f.min_event THEN f.max_event - f.min_event ELSE 0) + 1
    ELSE IF f.hasEvents THEN f.max_event - f.min_event
    ELSE 0

\* The u64 subtraction of the current branch underflows.
scan_underflows(f) == f.exists /\ ~f.hasMeta /\ f.hasEvents /\ f.max_event < f.min_event

RECURSIVE scan_sum(_, _)
scan_sum(run, hi) == IF run > hi THEN 0 ELSE scan_run(FileAt(run)) + scan_sum(run + 1, hi)

\* get_total_merger_events(merger_path, lo, hi).  The result is the u64 value
\* modulo 2^64, written as the integer sum: a negative sum S stands for 2^64 + S,
\* the value a build without overflow checks computes.  A build with overflow
\* checks panics at an underflowing subtraction instead.
get_total_merger_events(lo, hi) ==
    [value |-> scan_sum(lo, hi),
     underflow |-> \E r \in lo..hi : scan_underflows(FileAt(r))]

\* ------------------------------------------------------------ merger reader
NoReader ==
    [version |-> "Invalid", current_run |-> 0, current_event |-> 0, current_max_event |-> 0]

\* MergerReader::init_file on the file `f` just opened as current_file.
init_file(rd, f) ==
    IF f.hasMeta
    THEN [ok |-> TRUE, err |-> "",
          rd |-> [rd EXCEPT !.version = "V010", !.current_event = f.min_event,
                            !.current_max_event = f.max_event]]
    ELSE IF f.hasEvents
    THEN [ok |-> TRUE, err |-> "",
          rd |-> [rd EXCEPT !.version = "V020", !.current_event = f.min_event,
                            !.current_max_event = f.max_event]]
    ELSE [ok |-> FALSE, err |-> "Invalid Merger Version!", rd |-> rd]

\* Mutant of MergerReader_new: the reader is returned without the first file
\* being opened and initialised.
MergerReader_new_unchecked(lo, hi) ==
    [ok |-> TRUE, err |-> "",
     rd |-> [version |-> "Invalid", current_run |-> lo, current_event |-> 0,
             current_max_event |-> 0]]

\* MergerReader::new(merger_path, lo, hi): no reader is returned when the file of
\* `lo` does not open or init_file fails on it.
MergerReader_new(lo, hi) ==
    LET f == FileAt(lo)
        rd0 == [version |-> "Invalid", current_run |-> lo, current_event |-> 0,
                current_max_event |-> 0]
        r == init_file(rd0, f)
    IN  IF ~f.exists THEN [ok |-> FALSE, err |-> "open", rd |-> NoReader]
        ELSE IF ~r.ok THEN [ok |-> FALSE, err |-> r.err, rd |-> NoReader]
        ELSE r

\* Mutant of next_run: a run whose file is absent is not skipped.
next_run_no_skip(run, hi) == run + 1

\* The loop of find_next_file: the first run after `run` that exists, or the
\* first run beyond `hi`.
RECURSIVE next_run(_, _)
next_run(run, hi) ==
    IF run + 1 > hi THEN run + 1
    ELSE IF ~FileAt(run + 1).exists THEN next_run(run + 1, hi)
    ELSE run + 1

\* Mutant of find_next_file: running out of runs is an error.
find_next_file_end_is_error(rd, hi) ==
    LET n == next_run(rd.current_run, hi)
        moved == [rd EXCEPT !.current_run = n]
    IN  IF n > hi THEN [ok |-> FALSE, found |-> FALSE, err |-> "no more runs", rd |-> moved]
        ELSE LET r == init_file(moved, FileAt(n))
             IN  [ok |-> r.ok, found |-> r.ok, err |-> r.err, rd |-> r.rd]

\* Mutant of find_next_file: running out of runs rewinds current_run.
find_next_file_rewinds(rd, hi) ==
    LET n == next_run(rd.current_run, hi)
    IN  IF n > hi
        THEN [ok |-> TRUE, found |-> FALSE, err |-> "", rd |-> [rd EXCEPT !.current_run = 0]]
        ELSE LET r == init_file([rd EXCEPT !.current_run = n], FileAt(n))
             IN  [ok |-> r.ok, found |-> r.ok, err |-> r.err, rd |-> r.rd]

\* MergerReader::find_next_file.  found = FALSE with ok = TRUE is Ok(None).
find_next_file(rd, hi) ==
    LET n == next_run(rd.current_run, hi)
        moved == [rd EXCEPT !.current_run = n]
    IN  IF n > hi THEN [ok |-> TRUE, found |-> FALSE, err |-> "", rd |-> moved]
        ELSE LET r == init_file(moved, FileAt(n))
             IN  [ok |-> r.ok, found |-> r.ok, err |-> r.err, rd |-> r.rd]

MergerEvent(run, ev, get, frib) ==
    [run_number |-> run, event |-> ev, get |-> get, frib |-> frib]

\* MergerReader::read_event_020: the group events/event_{current_event} must exist.
read_event_020(rd) ==
    LET f == FileAt(rd.current_run)
    IN  IF rd.current_event \notin f.stored
        THEN [kind |-> "err", err |-> "missing event group",
              event |-> MergerEvent(0, 0, FALSE, FALSE)]
        ELSE [kind |-> "some", err |-> "",
              event |-> MergerEvent(rd.current_run, rd.current_event,
                                    rd.current_event \in f.get,
                                    rd.current_event \in f.frib)]

\* MergerReader::read_event_010: the groups get and frib/evt must exist; a
\* payload whose dataset is missing is absent from the event.
read_event_010(rd) ==
    LET f == FileAt(rd.current_run)
        has == rd.current_event \in f.stored
    IN  IF ~f.groups
        THEN [kind |-> "err", err |-> "missing group",
              event |-> MergerEvent(0, 0, FALSE, FALSE)]
        ELSE [kind |-> "some", err |-> "",
              event |-> MergerEvent(rd.current_run, rd.current_event,
                                    has /\ rd.current_event \in f.get,
                                    has /\ rd.current_event \in f.frib)]

\* Mutant of file_finished: the file counts as finished one event early.
file_finished_early(rd) == rd.current_event >= rd.current_max_event

\* The cursor has run past the current file's declared maximum.
file_finished(rd) == rd.current_event > rd.current_max_event

\* MergerReader::read_event: kind is "some" (Ok(Some(event))), "none" (Ok(None))
\* or "err"; rd is the reader afterwards.
read_event(rd, hi) ==
    LET nf == IF file_finished(rd) THEN find_next_file(rd, hi)
              ELSE [ok |-> TRUE, found |-> TRUE, err |-> "", rd |-> rd]
    IN  IF ~nf.ok
        THEN [kind |-> "err", err |-> nf.err, rd |-> nf.rd,
              event |-> MergerEvent(0, 0, FALSE, FALSE)]
        ELSE IF ~nf.found
        THEN [kind |-> "none", err |-> "", rd |-> nf.rd,
              event |-> MergerEvent(0, 0, FALSE, FALSE)]
        ELSE LET res == IF nf.rd.version = "V020" THEN read_event_020(nf.rd)
                        ELSE IF nf.rd.version = "V010" THEN read_event_010(nf.rd)
                        ELSE [kind |-> "err",
                              err |-> "Attempting to read event from invalid reader!",
                              event |-> MergerEvent(0, 0, FALSE, FALSE)]
             IN  [kind |-> res.kind, err |-> res.err, event |-> res.event,
                  rd |-> [nf.rd EXCEPT !.current_event = @ + 1]]

\* ---------------------------------------------------------- harmonic writer
\* An output file: events maps the local index i of each group events/event_i to
\* the event stored there; min_event and max_event are the attributes of the
\* events group; finalized tells whether max_event has been written (init_file
\* creates the attribute without writing a value); size is the on-disk size.
NoWriter == [current_run |-> 0, current_event |-> 0]

\* The bytes one write adds to the file: the event group with orig_run and
\* orig_event, plus each payload that is present.
event_bytes(e) == 1 + (IF e.get THEN 1 ELSE 0) + (IF e.frib THEN 1 ELSE 0)

\* File::create followed by HarmonicWriter::init_file.
writer_init_file(size0) ==
    [events |-> <<>>, min_event |-> 0, max_event |-> 0, finalized |-> FALSE,
     size |-> size0]

\* Mutant of finish_file: records the last local index instead of the count.
finish_file_last_index(w, files) ==
    [files EXCEPT ![w.current_run] =
        [@ EXCEPT !.max_event = IF w.current_event > 0 THEN w.current_event - 1 ELSE 0,
                  !.finalized = TRUE]]

\* HarmonicWriter::finish_file: max_event := current_event on the current file.
finish_file(w, files) ==
    [files EXCEPT ![w.current_run] =
        [@ EXCEPT !.max_event = w.current_event, !.finalized = TRUE]]

\* File::create(construct_run_path(harmonic_path, run))? returns an error: the
\* directory harmonic_path does not exist, or the path is the file the reader
\* holds open as current_file (the two directories are the same), which the
\* HDF5 library refuses to truncate.
File_create_fails(run) ==
    \/ ~harmonic_path_exists
    \/ same_dir /\ reader # NoReader /\ reader.current_run = run

\* Mutant of HarmonicWriter_new: the writer rolls over once before any write.
HarmonicWriter_new_rolled(size0) ==
    [ok |-> TRUE, err |-> "", w |-> [current_run |-> 1, current_event |-> 0],
     files |-> (0 :> [writer_init_file(size0) EXCEPT !.finalized = TRUE]) @@
               (1 :> writer_init_file(size0))]

\* HarmonicWriter::new: output file 0 is created and initialised.
HarmonicWriter_new(size0) ==
    IF File_create_fails(0)
    THEN [ok |-> FALSE, err |-> "create", w |-> NoWriter, files |-> <<>>]
    ELSE [ok |-> TRUE, err |-> "", w |-> [current_run |-> 0, current_event |-> 0],
          files |-> (0 :> writer_init_file(size0))]

\* Mutant of stored_event: the provenance is written only with a payload.
stored_event_payload_only(e) ==
    [orig_run |-> IF e.get \/ e.frib THEN e.run_number ELSE 0,
     orig_event |-> IF e.get \/ e.frib THEN e.event ELSE 0, get |-> e.get, frib |-> e.frib]

\* Mutant of stored_event: orig_event is written from the run number.
stored_event_swapped(e) ==
    [orig_run |-> e.run_number, orig_event |-> e.run_number, get |-> e.get, frib |-> e.frib]

\* The stored form of an event: the group events/event_{local index}.
stored_event(e) ==
    [orig_run |-> e.run_number, orig_event |-> e.event, get |-> e.get, frib |-> e.frib]

\* Mutant of file_full: the file is ended at twice the threshold.
file_full_double(size, threshold) == size >= 2 * threshold

\* Mutant of file_full: a file exactly at the threshold is not ended.
file_full_strict(size, threshold) == size > threshold

\* The size check that ends a file.
file_full(size, threshold) == size >= threshold

\* HarmonicWriter::write(event) with threshold harmonic_size; size0 is the size
\* of a newly created and initialised file.  create_group fails when the group
\* event_{current_event} already exists in the current file.  At a rollover the
\* file is finished and the counters are moved on before the next file is
\* created, so a failing File::create leaves them moved on.
write(w, files, e, threshold, size0) ==
    LET cur == files[w.current_run]
    IN  IF w.current_event \in DOMAIN cur.events
        THEN [ok |-> FALSE, err |-> "event group exists", w |-> w, files |-> files]
        ELSE
        LET grown == [cur EXCEPT !.events = @ @@ (w.current_event :> stored_event(e)),
                                 !.size = @ + event_bytes(e)]
            files1 == [files EXCEPT ![w.current_run] = grown]
            w1 == [w EXCEPT !.current_event = @ + 1]
        IN  IF file_full(grown.size, threshold)
            THEN LET done == finish_file(w1, files1)
                     w2 == [current_run |-> w1.current_run + 1, current_event |-> 0]
                 IN  IF File_create_fails(w2.current_run)
                     THEN [ok |-> FALSE, err |-> "create", w |-> w2, files |-> done]
                     ELSE [ok |-> TRUE, err |-> "", w |-> w2,
                           files |-> (w2.current_run :> writer_init_file(size0)) @@ done]
            ELSE [ok |-> TRUE, err |-> "", w |-> w1, files |-> files1]

\* Mutant of close: the file open at the end is left as it is.
close_leaves_open(w, files) == files

\* HarmonicWriter::close.
close(w, files) == finish_file(w, files)

\* --------------------------------------------------------- scaler aggregator
ScalerRow(run, idx) == [run |-> run, event |-> idx]

\* The probe loop of read_scalers_010: rows for scaler0, scaler1, ... up to the
\* first index whose dataset is missing.
RECURSIVE probe_010(_, _, _)
probe_010(f, run, idx) ==
    IF idx \in f.srecs THEN <<ScalerRow(run, idx)>> \o probe_010(f, run, idx + 1)
    ELSE <<>>

\* read_scalers_010: the group frib/scaler must exist.
read_scalers_010(f, run) ==
    IF ~f.hasScalers THEN [ok |-> FALSE, err |-> "missing scaler group", rows |-> <<>>]
    ELSE [ok |-> TRUE, err |-> "", rows |-> probe_010(f, run, 0)]

\* Mutant of range_020: the upper bound is exclusive.
RECURSIVE range_020_exclusive(_, _, _, _)
range_020_exclusive(f, run, idx, hi) ==
    IF idx >= hi THEN [ok |-> TRUE, rows |-> <<>>]
    ELSE IF idx \notin f.srecs THEN [ok |-> FALSE, rows |-> <<>>]
    ELSE LET rest == range_020_exclusive(f, run, idx + 1, hi)
         IN  [ok |-> rest.ok, rows |-> <<[run |-> run, event |-> idx]>> \o rest.rows]

\* The loop of read_scalers_020 over idx..=hi: the dataset lookup is followed by
\* `?`, so a missing record ends the loop with an error.
RECURSIVE range_020(_, _, _, _)
range_020(f, run, idx, hi) ==
    IF idx > hi THEN [ok |-> TRUE, rows |-> <<>>]
    ELSE IF idx \notin f.srecs THEN [ok |-> FALSE, rows |-> <<>>]
    ELSE LET rest == range_020(f, run, idx + 1, hi)
         IN  [ok |-> rest.ok, rows |-> <<ScalerRow(run, idx)>> \o rest.rows]

\* read_scalers_020: the group scalers with its min_event and max_event.  Rows
\* pushed before an error stay in the accumulator.
read_scalers_020(f, run) ==
    IF ~f.hasScalers THEN [ok |-> FALSE, err |-> "missing scaler group", rows |-> <<>>]
    ELSE IF ~f.sbounds THEN [ok |-> FALSE, err |-> "missing scaler bounds", rows |-> <<>>]
    ELSE LET r == range_020(f, run, f.smin, f.smax)
         IN  [ok |-> r.ok, err |-> IF r.ok THEN "" ELSE "missing scaler record",
              rows |-> r.rows]

\* One iteration of the loop of process_scalers, for the file of `run`.
scalers_of_run(f, run) ==
    IF ~f.exists THEN [ok |-> TRUE, err |-> "", rows |-> <<>>]
    ELSE IF f.hasMeta THEN read_scalers_010(f, run)
    ELSE IF f.hasEvents THEN read_scalers_020(f, run)
    ELSE [ok |-> FALSE, err |-> "Invalid merger version at process scalers!",
          rows |-> <<>>]

\* process_scalers(merger_path, harmonic_path, lo, hi): file is the content of
\* scalers.parquet, written only when every run was read without error.
RECURSIVE scalers_loop(_, _, _)
scalers_loop(run, hi, acc) ==
    IF run > hi THEN [ok |-> TRUE, err |-> "", rows |-> acc]
    ELSE LET r == scalers_of_run(FileAt(run), run)
         IN  IF ~r.ok THEN [ok |-> FALSE, err |-> r.err, rows |-> acc \o r.rows]
             ELSE scalers_loop(run + 1, hi, acc \o r.rows)

process_scalers(lo, hi) == scalers_loop(lo, hi, <<>>)

\* ------------------------------------------------------------------ inputs
\* A run file of the given schema and event bounds whose events lo..hi are
\* stored up to (not including) index `upto`, each with a GET payload, and whose
\* scaler group holds the single record 0.
RunFile(meta, lo, hi, upto) ==
    [exists |-> TRUE, hasMeta |-> meta, hasEvents |-> ~meta,
     min_event |-> lo, max_event |-> hi, stored |-> 0..(upto - 1),
     get |-> 0..(upto - 1), frib |-> {}, groups |-> TRUE,
     hasScalers |-> TRUE, sbounds |-> TRUE, smin |-> 0, smax |-> 0, srecs |-> {0}]

\* Files for the reader on its own: absent, unrecognised, a legacy file without
\* its get and frib/evt groups, a file with both the meta and the events group,
\* and both schemas with every pair of bounds (empty ones included), either with
\* every index stored or with the indices below max_event only (the layout the
\* writer produces).
ReaderFiles ==
    {AbsentFile, InvalidFile, [RunFile(TRUE, 0, 0, 1) EXCEPT !.groups = FALSE],
     [RunFile(TRUE, 0, 0, 1) EXCEPT !.hasEvents = TRUE]} \cup
    { RunFile(m, lo, hi, IF full THEN MaxEvent + 1 ELSE hi) :
        m \in BOOLEAN, lo \in EventIdx, hi \in EventIdx, full \in BOOLEAN }

\* Files for a reader that is read to its end: absent, unrecognised, a
\* current-schema file none of whose events is stored, and both schemas with the
\* widest bounds and with empty ones.
TerminationFiles ==
    {AbsentFile, InvalidFile, RunFile(FALSE, 0, MaxEvent, 0)} \cup
    { RunFile(m, b[1], b[2], MaxEvent + 1) :
        m \in BOOLEAN, b \in {<<0, MaxEvent>>, <<MaxEvent, 0>>} }

\* A file of the given schema with the widest bounds whose event 0 carries a GET
\* payload and whose other events carry no payload at all.
SparseFile(meta) == [RunFile(meta, 0, MaxEvent, MaxEvent + 1) EXCEPT !.get = {0}]

\* Files for the whole pipeline: as ReaderFiles, with every index stored, and
\* the two files with payload-less events.
HarmonizeFiles ==
    {AbsentFile, InvalidFile, SparseFile(TRUE), SparseFile(FALSE)} \cup
    { RunFile(m, lo, hi, MaxEvent + 1) : m \in BOOLEAN, lo \in EventIdx, hi \in EventIdx }

\* Files for the pipeline run in either arrangement of the directories: absent,
\* unrecognised, a legacy and a current-schema file with the one event 0, and
\* current-schema files with the widest bounds and with empty ones.
DirFiles ==
    {AbsentFile, InvalidFile, RunFile(TRUE, 0, 0, 1), RunFile(FALSE, 0, 0, 1),
     RunFile(FALSE, 0, MaxEvent, MaxEvent + 1), RunFile(FALSE, MaxEvent, 0, MaxEvent + 1)}

\* Scaler records present in a file: the indices below some k.
ScalerSets == {0..(k - 1) : k \in 0..(MaxScaler + 1)}

\* Files for the aggregator on its own: absent, unrecognised, legacy files with
\* or without the group frib/scaler, current files with or without the group
\* scalers, numbered from 0 or from 1.
ScalerFiles ==
    {AbsentFile, InvalidFile} \cup
    { [RunFile(m, 0, 0, 1) EXCEPT !.hasScalers = FALSE, !.srecs = {}] : m \in BOOLEAN } \cup
    { [RunFile(TRUE, 0, 0, 1) EXCEPT !.srecs = recs] : recs \in ScalerSets } \cup
    { [RunFile(FALSE, 0, 0, 1) EXCEPT !.smin = lo, !.smax = hi, !.srecs = recs] :
        lo \in {0, 1}, hi \in ScalerIdx, recs \in ScalerSets }

\* Events handed to a writer driven on its own: provenance from either end of
\* the run and index ranges, with or without a GET payload.
WriterEvents ==
    { MergerEvent(p[1], p[2], g, FALSE) :
        p \in {<<1, MaxEvent>>, <<NumRuns, 0>>}, g \in BOOLEAN }

\* ---------------------------------------------------------------- the state
config == <<merger_path_exists, harmonic_path_exists, same_dir, disk, min_run, max_run,
            harmonic_size, empty_size>>

\* Every run range within 1..NumRuns.
Ranges == {range \in Runs \X Runs : range[1] <= range[2]}

\* Both directories exist; they are two different directories, or one and the
\* same.
DistinctDirs == merger_path_exists = TRUE /\ harmonic_path_exists = TRUE /\ same_dir = FALSE
SameDir == merger_path_exists = TRUE /\ harmonic_path_exists = TRUE /\ same_dir = TRUE

\* The state before anything has run, over the given input files, run ranges,
\* thresholds and empty-file sizes.
Start(files, ranges, thresholds, sizes, pc0) ==
    /\ console = ""
    /\ disk \in [Runs -> files]
    /\ \E range \in ranges : min_run = range[1] /\ max_run = range[2]
    /\ harmonic_size \in thresholds
    /\ empty_size \in sizes
    /\ pc = pc0
    /\ err = ""
    /\ total_events = 0
    /\ reader = NoReader
    /\ emitted = <<>>
    /\ eos = 0
    /\ writer = NoWriter
    /\ out = <<>>
    /\ written = <<>>
    /\ scalers = <<>>
    /\ scaler_file = "none"

\* Mutant of propagate_error: the writer is closed on the way out.
propagate_error_closes(w, files) ==
    IF w.current_run \in DOMAIN files THEN finish_file(w, files) ELSE files

\* The `?` after read_event and write in the loop of harmonize (main.rs:117,
\* 120): the error is returned at once and the writer is dropped; close is not
\* called, so the output files stay as they are.
propagate_error(w, files) == files

\* get_total_merger_events(..)? (main.rs:107).  A build with overflow checks
\* panics when a u64 subtraction underflows; one without them goes on with the
\* wrapped sum.
Scan ==
    /\ pc = "scan"
    /\ LET r == get_total_merger_events(min_run, max_run)
       IN  \/ /\ total_events' = r.value
              /\ pc' = "new_reader"
           \/ /\ r.underflow
              /\ total_events' = total_events
              /\ pc' = "panicked"
    /\ UNCHANGED <<config, console, err, reader, emitted, eos, writer, out, written, scalers,
                   scaler_file>>

\* MergerReader::new(..)? (main.rs:114), going on at `next` when it succeeds.
ReaderNewStep(next) ==
    /\ pc = "new_reader"
    /\ LET r == MergerReader_new(min_run, max_run)
       IN  /\ reader' = r.rd
           /\ err' = r.err
           /\ pc' = IF r.ok THEN next ELSE "failed"
    /\ UNCHANGED <<config, console, total_events, emitted, eos, writer, out, written, scalers,
                   scaler_file>>

\* reader.read_event()? (main.rs:117): on Some(e) go on at `onSome`, on None at
\* `onNone`.
ReadEventStep(onSome, onNone) ==
    /\ pc = "read"
    /\ LET r == read_event(reader, max_run)
       IN  /\ reader' = r.rd
           /\ err' = r.err
           /\ emitted' = IF r.kind = "some" THEN Append(emitted, r.event) ELSE emitted
           /\ eos' = IF r.kind = "none" THEN eos + 1 ELSE eos
           /\ pc' = CASE r.kind = "some" -> onSome
                      [] r.kind = "none" -> onNone
                      [] OTHER -> "failed"
           /\ out' = IF r.kind = "err" THEN propagate_error(writer, out) ELSE out
    /\ UNCHANGED <<config, console, total_events, writer, written, scalers, scaler_file>>

\* HarmonicWriter::new(..)? (main.rs:115), going on at `next` when it succeeds.
WriterNewStep(next) ==
    /\ pc = "new_writer"
    /\ LET r == HarmonicWriter_new(empty_size)
       IN  /\ writer' = r.w
           /\ out' = r.files
           /\ err' = r.err
           /\ pc' = IF r.ok THEN next ELSE "failed"
    /\ UNCHANGED <<config, console, total_events, reader, emitted, eos, written, scalers,
                   scaler_file>>

\* writer.write(e)? (main.rs:120), going on at `next` when it succeeds.
WriteStep(e, next) ==
    /\ LET r == write(writer, out, e, harmonic_size, empty_size)
       IN  /\ writer' = r.w
           /\ out' = IF r.ok THEN r.files ELSE propagate_error(r.w, r.files)
           /\ err' = r.err
           /\ pc' = IF r.ok THEN next ELSE "failed"
    /\ written' = Append(written, e)
    /\ UNCHANGED <<config, console, total_events, reader, emitted, eos, scalers, scaler_file>>

\* writer.close()? (main.rs:126), going on at `next`.
CloseStep(next) ==
    /\ out' = close(writer, out)
    /\ pc' = next
    /\ UNCHANGED <<config, console, err, total_events, reader, emitted, eos, writer, written,
                   scalers, scaler_file>>

\* Mutant of write_parquet: the rows read so far are written on an error too.
write_parquet_always(r, old) == r.rows

\* The end of process_scalers (scalers.rs:49-56): scalers.parquet is created and
\* written with the accumulated rows once the loop over the runs has returned
\* no error; `old` is what the path held before, "none" when nothing.
write_parquet(r, old) == IF r.ok THEN r.rows ELSE old

\* process_scalers(..)? (main.rs:129).
Scalers ==
    /\ pc = "scalers"
    /\ LET r == process_scalers(min_run, max_run)
       IN  /\ scalers' = r.rows
           /\ scaler_file' = write_parquet(r, scaler_file)
           /\ err' = r.err
           /\ pc' = IF r.ok THEN "done" ELSE "failed"
    /\ UNCHANGED <<config, console, total_events, reader, emitted, eos, writer, out, written>>

\* ------------------------------------------------------------------ harmonize
\* harmonize(config): scan, open the reader, open the writer, copy every event,
\* close the writer, aggregate the scalers; here with the input and the output
\* in two different directories.
Init == DistinctDirs /\ Start(HarmonizeFiles, Ranges, {0, MaxThreshold}, {0, MaxEmptySize}, "scan")

ReaderNew == ReaderNewStep("new_writer")
WriterNew == WriterNewStep("read")
ReadEvent == ReadEventStep("write", "close")
Write == pc = "write" /\ WriteStep(emitted[Len(emitted)], "read")
Close == pc = "close" /\ CloseStep("scalers")

Next == Scan \/ ReaderNew \/ WriterNew \/ ReadEvent \/ Write \/ Close \/ Scalers

Spec == Init /\ [][Next]_vars

\* harmonize(config) with the input and the output in two different directories
\* or in one and the same.
InitDirs ==
    /\ DistinctDirs \/ SameDir
    /\ Start(DirFiles, Ranges, {0, MaxThreshold}, {0}, "scan")

SpecDirs == InitDirs /\ [][Next]_vars

\* ----------------------------------------------------------------------- main
\* main() from the loaded configuration on (main.rs:174-196): the two path
\* checks, each of which prints its message and falls through, then
\* get_total_merger_bytes, which only reads the metadata of the files of the
\* range and always returns Ok, then harmonize(config).
Main ==
    /\ pc = "main"
    /\ console' = IF ~merger_path_exists THEN "Merger path does not exist! Quitting."
                  ELSE IF ~harmonic_path_exists THEN "Harmonic path does not exist!"
                  ELSE ""
    /\ pc' = "scan"
    /\ UNCHANGED <<config, err, total_events, reader, emitted, eos, writer, out, written,
                   scalers, scaler_file>>

\* The program from main on: either directory may be missing, and a missing
\* merger_path holds no run file.
InitMain ==
    /\ merger_path_exists \in BOOLEAN
    /\ harmonic_path_exists \in BOOLEAN
    /\ same_dir = FALSE
    /\ Start(IF merger_path_exists THEN DirFiles ELSE {AbsentFile}, Ranges,
             {0, MaxThreshold}, {0}, "main")

NextMain == Main \/ Next

SpecMain == InitMain /\ [][NextMain]_vars

\* ------------------------------------------------------ the reader on its own
\* The scanner, then a MergerReader read until end-of-stream and MaxEos calls
\* beyond it.
InitReader == DistinctDirs /\ Start(ReaderFiles, Ranges, {0}, {0}, "scan")

ReaderOpen == ReaderNewStep("read")
ReaderRead == eos <= MaxEos /\ ReadEventStep("read", "read")

NextReader == Scan \/ ReaderOpen \/ ReaderRead

SpecReader == InitReader /\ [][NextReader]_vars

\* A MergerReader opened and read by a caller that goes on calling, as the loop
\* of harmonize does (main.rs:116-125).
InitReaderOnly == DistinctDirs /\ Start(TerminationFiles, Ranges, {0}, {0}, "new_reader")

NextReaderOnly == ReaderOpen \/ ReaderRead

SpecReaderFair ==
    InitReaderOnly /\ [][NextReaderOnly]_vars /\ WF_vars(ReaderOpen) /\ WF_vars(ReaderRead)

\* ------------------------------------------------------ the writer on its own
\* A HarmonicWriter given any MaxWrites events, then closed.
InitWriter ==
    DistinctDirs /\ Start({AbsentFile}, {<<1, NumRuns>>}, 0..MaxThreshold, 0..MaxEmptySize, "new_writer")

WriterOpen == WriterNewStep("write")
WriterWrite ==
    /\ pc = "write"
    /\ Len(written) < MaxWrites
    /\ \E e \in WriterEvents : WriteStep(e, "write")
WriterClose == pc = "write" /\ CloseStep("closed")

NextWriter == WriterOpen \/ WriterWrite \/ WriterClose

SpecWriter == InitWriter /\ [][NextWriter]_vars

\* ------------------------------------------------------------ the round trip
\* A HarmonicWriter given any MaxWrites events and closed, then a MergerReader
\* opened on its directory for one of its first two files and read to the end.
InitRoundTrip ==
    SameDir /\ Start({AbsentFile}, {<<0, 0>>, <<1, 1>>}, {0, MaxThreshold}, {0}, "new_writer")

RoundTripClose == pc = "write" /\ CloseStep("new_reader")

NextRoundTrip == WriterOpen \/ WriterWrite \/ RoundTripClose \/ ReaderOpen \/ ReaderRead

SpecRoundTrip == InitRoundTrip /\ [][NextRoundTrip]_vars

\* -------------------------------------------------- the aggregator on its own
InitScalers == DistinctDirs /\ Start(ScalerFiles, Ranges, {0}, {0}, "scalers")

NextScalers == Scalers

SpecScalers == InitScalers /\ [][NextScalers]_vars

\* Files for an aggregator run more than once: absent, unrecognised, a legacy and
\* a current-schema file with the record 0, and files on which the pass fails: a
\* legacy file without the group frib/scaler, a current-schema file whose group
\* scalers lacks its bounds, and one that declares 0..1 and holds record 0 only.
RerunFiles ==
    {AbsentFile, InvalidFile, RunFile(TRUE, 0, 0, 1), RunFile(FALSE, 0, 0, 1),
     [RunFile(TRUE, 0, 0, 1) EXCEPT !.hasScalers = FALSE, !.srecs = {}],
     [RunFile(FALSE, 0, 0, 1) EXCEPT !.sbounds = FALSE],
     [RunFile(FALSE, 0, 0, 1) EXCEPT !.smax = 1]}

\* The program is started again on the same directories with another run range
\* (Config::load, main.rs:168): the scaler pass begins with an empty accumulator
\* and finds at harmonic_path/scalers.parquet what an earlier pass left there.
Rerun ==
    /\ pc \in {"done", "failed"}
    /\ \E range \in Ranges : min_run' = range[1] /\ max_run' = range[2]
    /\ pc' = "scalers"
    /\ err' = ""
    /\ scalers' = <<>>
    /\ UNCHANGED <<merger_path_exists, harmonic_path_exists, same_dir, disk, harmonic_size,
                   empty_size, console, total_events, reader, emitted, eos, writer, out,
                   written, scaler_file>>

\* The aggregator run any number of times over the same files.
InitRerun == DistinctDirs /\ Start(RerunFiles, Ranges, {0}, {0}, "scalers")

NextRerun == Scalers \/ Rerun

SpecRerun == InitRerun /\ [][NextRerun]_vars

\* ===================================================================== claims
InRange(run) == run >= min_run /\ run <= max_run

\* (run_number, event) of a is lexicographically below that of b.
LexLess(a, b) ==
    \/ a.run_number < b.run_number
    \/ a.run_number = b.run_number /\ a.event < b.event

\* The positions of `seq` that hold event `idx` of run `run`.
Positions(seq, run, idx) ==
    {k \in 1..Len(seq) : seq[k].run_number = run /\ seq[k].event = idx}

\* Every file of the range that exists has a known schema, non-empty declared
\* bounds and every declared event stored.
WellFormed(f) ==
    /\ f.hasMeta \/ f.hasEvents
    /\ f.hasMeta => f.groups
    /\ f.min_event <= f.max_event
    /\ \A i \in f.min_event..f.max_event : i \in f.stored
AllWellFormed == \A r \in Runs : InRange(r) /\ disk[r].exists => WellFormed(disk[r])

\* C1: the events read_event returns are strictly increasing in
\* (run_number, event_index), and once it has returned end-of-stream they hold
\* every index min_event..max_event of every run of the range that is on disk
\* exactly once.
C1_ReadOrder ==
    /\ \A k \in 1..(Len(emitted) - 1) : LexLess(emitted[k], emitted[k + 1])
    /\ eos >= 1 =>
          \A r \in Runs : InRange(r) /\ disk[r].exists =>
             \A i \in disk[r].min_event..disk[r].max_event :
                Cardinality(Positions(emitted, r, i)) = 1

\* C1 witness: end-of-stream after events of two different runs were returned.
C1_Witness ==
    /\ eos >= 1
    /\ Len(emitted) >= 3
    /\ emitted[1].run_number # emitted[Len(emitted)].run_number

\* C2: when read_event reaches end-of-stream over well-formed files, the number
\* of events it returned equals the total get_total_merger_events computed.
C2_ScanMatchesRead ==
    eos >= 1 /\ AllWellFormed => Len(emitted) = total_events

\* ------------------------------------------------------------- writer claims
\* Number of events stored in an output file.
Count(f) == Cardinality(DOMAIN f.events)

\* The local indices of an output file are 0..n-1.
Contiguous(f) == DOMAIN f.events = 0..(Count(f) - 1)

\* The events of an output file in local-index order.
InOrder(f) == [k \in 1..Count(f) |-> f.events[k - 1]]

\* The events of the output files n, n+1, .. in file-number order.
RECURSIVE Concat(_)
Concat(n) == IF n \notin DOMAIN out THEN <<>> ELSE InOrder(out[n]) \o Concat(n + 1)

RECURSIVE TotalCount(_)
TotalCount(n) == IF n \notin DOMAIN out THEN 0 ELSE Count(out[n]) + TotalCount(n + 1)

\* On-disk size of output file f after its first j events.
RECURSIVE SizeAfter(_, _)
SizeAfter(f, j) == IF j = 0 THEN empty_size ELSE SizeAfter(f, j - 1) + event_bytes(f.events[j - 1])

Larger(a, b) == IF a >= b THEN a ELSE b

\* C3: the output files' events, in file-number then local-index order and
\* projected onto (orig_run, orig_event), are the (run_number, event) values
\* passed to write, in the same order; local indices are 0..n-1 in every file
\* whatever the original indices were.
C3_OrderPreserved ==
    /\ \A n \in DOMAIN out : Contiguous(out[n])
    /\ (\A n \in DOMAIN out : Contiguous(out[n])) =>
          LET all == Concat(0)
          IN  /\ Len(all) = Len(written)
              /\ \A k \in 1..Len(all) :
                    /\ all[k].orig_run = written[k].run_number
                    /\ all[k].orig_event = written[k].event

\* C3 witness: a closed writer that rolled over, with an event stored under a
\* local index different from its original index.
C3_Witness ==
    /\ pc = "closed"
    /\ Len(written) >= 3
    /\ writer.current_run >= 1
    /\ \E n \in DOMAIN out : \E i \in DOMAIN out[n].events :
          out[n].events[i].orig_event # i

\* C4: every output file has min_event = 0, and a finalized one records as
\* max_event the number of events written to it; every write stored one event,
\* and a finalized file is one the writer has left or closed, so it receives no
\* further write.
C4_MaxEventIsCount ==
    /\ \A n \in DOMAIN out :
          /\ out[n].min_event = 0
          /\ out[n].finalized => out[n].max_event = Count(out[n])
          /\ out[n].finalized => n < writer.current_run \/ pc = "closed"
    /\ TotalCount(0) = Len(written)

\* C4 witness: a file finalized by rollover with two events and one finalized
\* by close.
C4_Witness ==
    /\ pc = "closed"
    /\ \E n \in DOMAIN out : n < writer.current_run /\ out[n].finalized /\ Count(out[n]) = 2
    /\ out[writer.current_run].finalized
    /\ Count(out[writer.current_run]) >= 1

\* C5 as stated: no output file but the last exceeds the threshold by more than
\* the bytes of the event whose write ended it.
C5_Original ==
    \A n \in DOMAIN out : n < writer.current_run /\ Contiguous(out[n]) /\ Count(out[n]) >= 1 =>
       out[n].size <= harmonic_size + event_bytes(out[n].events[Count(out[n]) - 1])

\* C5 amended: no output file but the last exceeds the larger of the threshold
\* and the size of an empty initialised file by more than the bytes of the
\* event whose write ended it.
C5_SizeBound ==
    \A n \in DOMAIN out : n < writer.current_run /\ Contiguous(out[n]) /\ Count(out[n]) >= 1 =>
       out[n].size <= Larger(harmonic_size, empty_size)
                        + event_bytes(out[n].events[Count(out[n]) - 1])

\* C5 witness: a file ended by an event that took it strictly past the threshold.
C5_Witness ==
    \E n \in DOMAIN out :
       /\ n < writer.current_run
       /\ Count(out[n]) >= 2
       /\ out[n].size > harmonic_size

\* The events written are five events of one size unit (50 bytes) each, three
\* of the first run and then two of the last, with a threshold of four units
\* (200 bytes), and the writer is closed.
C10_Example ==
    /\ pc = "closed"
    /\ harmonic_size = 4
    /\ Len(written) = 5
    /\ \A k \in 1..5 : event_bytes(written[k]) = 1
    /\ \A k \in 1..3 : written[k].run_number = 1
    /\ \A k \in 4..5 : written[k].run_number = NumRuns

\* The rollover rule: files are numbered 0..current_run; every file before the
\* current one was ended by the first write that took its size to the
\* threshold, is finalized, and the current file has not reached the threshold.
C10_Rollover ==
    pc \in {"write", "closed"} =>
       /\ DOMAIN out = 0..writer.current_run
       /\ writer.current_event = Count(out[writer.current_run])
       /\ \A n \in DOMAIN out : Contiguous(out[n]) =>
             /\ out[n].size = SizeAfter(out[n], Count(out[n]))
             /\ \A j \in 1..(Count(out[n]) - 1) :
                   SizeAfter(out[n], j) < harmonic_size
             /\ n < writer.current_run =>
                   /\ Count(out[n]) >= 1
                   /\ out[n].size >= harmonic_size
                   /\ out[n].finalized
             /\ n = writer.current_run /\ Count(out[n]) >= 1 =>
                   out[n].size < harmonic_size

\* C10 as stated: the rollover rule, and the example yields exactly 2 output
\* files holding 5 events.
C10_Original ==
    /\ C10_Rollover
    /\ C10_Example => Cardinality(DOMAIN out) = 2 /\ TotalCount(0) = 5

\* C10 amended: the rollover rule, and the example yields exactly 2 output
\* files holding 5 events when an empty initialised output file is smaller than
\* two size units (100 bytes).
C10_RolloverRule ==
    /\ C10_Rollover
    /\ C10_Example /\ empty_size < 2 => Cardinality(DOMAIN out) = 2 /\ TotalCount(0) = 5

\* C10 witness: the example has run with an empty-file size below two units.
C10_Witness == C10_Example /\ empty_size < 2 /\ writer.current_run = 1

\* ----------------------------------------------------------- pipeline claims
ExistingInRange == {r \in Runs : InRange(r) /\ disk[r].exists}
AbsentInRange == {r \in Runs : InRange(r) /\ ~disk[r].exists}

\* The sum of the scanner's counts over a set of runs.
RECURSIVE ScanOver(_)
ScanOver(S) ==
    IF S = {} THEN 0
    ELSE LET r == CHOOSE x \in S : TRUE IN scan_run(disk[r]) + ScanOver(S \ {r})

\* What holds of absent runs whichever run is absent: the scanner's total is the
\* total over the existing runs alone, no event and no scaler row carries the
\* number of an absent run.
C6_ZeroContribution ==
    /\ pc \notin {"scan", "panicked"} => total_events = ScanOver(ExistingInRange)
    /\ \A k \in 1..Len(emitted) : emitted[k].run_number \in ExistingInRange
    /\ \A k \in 1..Len(scalers) : scalers[k].run \in ExistingInRange

C7_FailsBeforeFinalize ==
    (\E r \in ExistingInRange : IsInvalid(disk[r])) /\ pc = "failed" =>
       \A n \in DOMAIN out : ~out[n].finalized

\* --------------------------------------------------------- aggregator claims
\* Every file of the range that exists has a known schema and its scaler group.
ScalerGroupsPresent ==
    \A r \in ExistingInRange : (disk[r].hasMeta \/ disk[r].hasEvents) /\ disk[r].hasScalers

\* The rows of the table that carry run number r.
RowsOfRun(table, r) == SelectSeq(table, LAMBDA row : row.run = r)

\* The first index from 0 that is not a scaler record of f.
FirstMissing(f) == CHOOSE n \in 0..(MaxScaler + 1) : n \notin f.srecs /\ \A m \in 0..(n - 1) : m \in f.srecs

\* The rows lo, lo+1, .., lo+k-1 of run r.
RowRange(r, lo, k) == [j \in 1..k |-> [run |-> r, event |-> lo + j - 1]]

\* C8: over files that all have their scaler group, process_scalers does not
\* fail: a record missing inside a current-schema run's declared range is
\* skipped.
C8_MissingSkipped == ScalerGroupsPresent => pc # "failed"

\* C9: the table written holds the runs in increasing order, nothing for a run
\* that is absent or outside the range, rows 0..k-1 for a legacy run whose first
\* missing record is k, and rows min_event..max_event for a current-schema run;
\* a legacy run with 4 records and a current run with bounds 0..3 give 8 rows.
C9_ScalerTable ==
    pc = "done" =>
       /\ \A k \in 1..(Len(scaler_file) - 1) : scaler_file[k].run <= scaler_file[k + 1].run
       /\ \A r \in Runs :
             RowsOfRun(scaler_file, r) =
                IF r \notin ExistingInRange THEN <<>>
                ELSE IF disk[r].hasMeta THEN RowRange(r, 0, FirstMissing(disk[r]))
                ELSE IF disk[r].smax >= disk[r].smin
                     THEN RowRange(r, disk[r].smin, disk[r].smax - disk[r].smin + 1)
                ELSE <<>>
       /\ \A r \in 0..NumRuns : RowsOfRun(scaler_file, r) = <<>> \/ r \in ExistingInRange
       /\ (/\ ExistingInRange = {min_run, max_run}
           /\ disk[min_run].hasMeta /\ disk[min_run].srecs = 0..3
           /\ ~disk[max_run].hasMeta /\ disk[max_run].smin = 0 /\ disk[max_run].smax = 3)
          => Len(scaler_file) = 8

\* C9 witness: the table of a legacy run with records 0..3 followed by a
\* current-schema run with bounds 0..3.
C9_Witness ==
    /\ pc = "done"
    /\ min_run # max_run
    /\ ExistingInRange = {min_run, max_run}
    /\ disk[min_run].hasMeta /\ disk[min_run].srecs = 0..3
    /\ ~disk[max_run].hasMeta /\ disk[max_run].smin = 0 /\ disk[max_run].smax = 3
    /\ Len(scaler_file) = 8

\* ------------------------------------------------------- whole-run claims
\* harmonize has called writer.close() and it returned.
Closed == pc \in {"scalers", "done"}

\* C11: when harmonize completes without error, every output file that was
\* created is finalized with its max_event written: the files before the
\* writer's current one at their rollover, the current one by close, whether or
\* not it reached the threshold.
C11_AllFinalized ==
    Closed =>
       /\ DOMAIN out = 0..writer.current_run
       /\ \A n \in DOMAIN out : out[n].finalized /\ out[n].max_event = Count(out[n])

\* C11 witness: harmonize completed with a file finalized at its rollover and a
\* last file that holds an event and is smaller than the threshold.
C11_Witness ==
    /\ pc = "done"
    /\ writer.current_run >= 1
    /\ Count(out[writer.current_run]) >= 1
    /\ out[writer.current_run].size < harmonic_size
    /\ out[writer.current_run].finalized

\* C12: repeated read_event calls eventually return end-of-stream or an error,
\* whatever the run range and the declared event bounds; end-of-stream is
\* returned once current_run has passed max_run, and an error never is.
C12_ReaderTerminates ==
    /\ <>(eos >= 1 \/ pc = "failed")
    /\ [](eos >= 1 => pc = "read" /\ reader.current_run > max_run)
    /\ [](pc = "failed" => reader.current_run <= max_run)

\* C12 witness: end-of-stream was returned after the skip loop passed an absent
\* last run.
C12_Witness ==
    /\ eos >= 1
    /\ min_run < max_run
    /\ ~disk[max_run].exists
    /\ Len(emitted) >= 1
    /\ reader.current_run > max_run

\* C13: whichever the directories are, the same one included, the file at the
\* path of every input run of the range is, throughout a harmonize run, the
\* file that was there when it started.
C13_InputsUntouched == \A r \in Runs : InRange(r) => FileAt(r) = disk[r]

\* The event carries neither payload.
Payloadless(e) == ~e.get /\ ~e.frib

\* C14: an event of either schema that has neither payload is returned by
\* read_event with both payloads absent (at end-of-stream every payload-less
\* index inside the bounds of every run of the range on disk has been returned
\* once), and its write stores one more output event that carries its orig_run
\* and orig_event.
C14_PayloadlessKept ==
    /\ \A k \in 1..Len(emitted) :
          LET e == emitted[k]
              f == disk[e.run_number]
          IN  /\ e.get = (e.event \in f.get)
              /\ e.frib = (e.event \in f.frib)
    /\ eos >= 1 =>
          \A r \in ExistingInRange : \A i \in disk[r].min_event..disk[r].max_event :
             i \notin disk[r].get \cup disk[r].frib =>
                /\ Cardinality(Positions(emitted, r, i)) = 1
                /\ \A k \in Positions(emitted, r, i) : Payloadless(emitted[k])
    /\ Len(written) = IF pc = "write" THEN Len(emitted) - 1 ELSE Len(emitted)
    /\ \A k \in 1..Len(written) : written[k] = emitted[k]
    /\ TotalCount(0) = Len(written)
    /\ LET all == Concat(0)
       IN  \A k \in 1..Len(written) : Payloadless(written[k]) =>
              /\ k <= Len(all)
              /\ all[k] = [orig_run |-> written[k].run_number,
                           orig_event |-> written[k].event, get |-> FALSE, frib |-> FALSE]

\* C14 witness: harmonize completed after it copied a payload-less event of a
\* legacy run and one of a current-schema run.
C14_Witness ==
    /\ pc = "done"
    /\ \E j \in 1..Len(written) : Payloadless(written[j]) /\ disk[written[j].run_number].hasMeta
    /\ \E k \in 1..Len(written) : Payloadless(written[k]) /\ ~disk[written[k].run_number].hasMeta

\* A step in which read_event or write returns an error to harmonize.
CopyError == pc \in {"read", "write"} /\ pc' = "failed"

\* What C15 says of every error in the loop: nothing runs after it, the files
\* finalized before it keep their events and their max_event, which is their
\* event count, and the scaler pass has not started.
AbortKeepsFinalized ==
    /\ pc # "failed"
    /\ CopyError =>
          /\ \A n \in DOMAIN out : out[n].finalized =>
                n \in DOMAIN out' /\ out'[n] = out[n]
          /\ \A n \in DOMAIN out' : out'[n].finalized => out'[n].max_event = Count(out'[n])
          /\ scalers' = <<>>
          /\ scaler_file' = "none"

\* C15 as stated: when read_event or write returns an error harmonize stops at
\* once, the finalized files are kept, the scaler pass is not started, and the
\* output file that was open when the call was made has no max_event written.
C15_Original ==
    [][/\ AbortKeepsFinalized
       /\ CopyError => ~out'[writer.current_run].finalized]_vars

\* C15 amended: as stated, except that when the error is write failing to
\* create the next output file the file that was open has just been finalized
\* by the rollover, and every output file that exists is finalized.
C15_AbortOnError ==
    [][/\ AbortKeepsFinalized
       /\ CopyError /\ err' # "create" => ~out'[writer.current_run].finalized
       /\ CopyError /\ err' = "create" =>
             /\ pc = "write"
             /\ DOMAIN out' = 0..writer.current_run
             /\ \A n \in DOMAIN out' : out'[n].finalized]_vars

\* C15 witness: write failed to create the next output file after it had
\* finalized the one it was writing.
C15_Witness ==
    /\ pc = "failed"
    /\ err = "create"
    /\ writer.current_run >= 1
    /\ Len(written) >= 1
    /\ out[writer.current_run - 1].finalized

\* get_total_merger_events returned Ok.
ScanReturned == pc \notin {"scan", "panicked"}

\* C16: the scanner and the reader classify a file the same way: the scanner
\* does not return a total when a file of the range has neither meta nor
\* events, as the reader fails on such a file; and the reader takes a file as
\* legacy exactly when it has meta, also when it has events too.
C16_UniformClassification ==
    /\ ScanReturned => \A r \in ExistingInRange : ~IsInvalid(disk[r])
    /\ pc = "read" /\ InRange(reader.current_run) =>
          /\ reader.version = "V010" <=> disk[reader.current_run].hasMeta
          /\ reader.version = "V020" <=> IsCurrent(disk[reader.current_run])

\* The file of min_run does not exist or has neither meta nor events.
FirstFileUnusable == ~disk[min_run].exists \/ IsInvalid(disk[min_run])

ReadBack(n, i) == MergerEvent(n, i, out[n].events[i].get, out[n].events[i].frib)

\* C18: a MergerReader opened on a finalized output file that holds n >= 1
\* events takes it as current-schema, returns the events under local indices
\* 0..n-1 in order, and then returns end-of-stream, with no error.
C18_RoundTrip ==
    /\ pc \in {"read", "failed"}
    /\ min_run \in DOMAIN out
    /\ out[min_run].finalized
    /\ Count(out[min_run]) >= 1
    => /\ pc # "failed"
       /\ reader.version = "V020"
       /\ Len(emitted) <= Count(out[min_run])
       /\ \A k \in 1..Len(emitted) : emitted[k] = ReadBack(min_run, k - 1)
       /\ eos >= 1 => Len(emitted) = Count(out[min_run])

\* C19: when merger_path or harmonic_path does not exist, main prints its
\* message and stops: harmonize is not entered, so the range is not scanned and
\* no output file is created.
C19_MainStops ==
    ~merger_path_exists \/ ~harmonic_path_exists =>
       /\ pc \in {"main", "stopped"}
       /\ total_events = 0
       /\ reader = NoReader /\ writer = NoWriter
       /\ out = <<>> /\ scaler_file = "none"

\* C20: every event read_event returns has an index inside the declared bounds
\* of its run, so a run whose declared bounds are empty yields no event,
\* wherever it stands in the range.
C20_WithinBounds ==
    \A k \in 1..Len(emitted) :
       LET e == emitted[k]
           f == disk[e.run_number]
       IN  f.min_event <= e.event /\ e.event <= f.max_event

\* C21: once read_event has returned end-of-stream, every further call returns
\* end-of-stream again: it returns no event and no error, and leaves the
\* cursor past the current file's maximum with current_run beyond max_run.  The
\* calls made keep current_run far inside the i32 range.
C21_StickyEndOfStream ==
    [][eos >= 1 =>
          /\ pc = "read" /\ pc' = "read"
          /\ eos' = eos + 1
          /\ emitted' = emitted
          /\ err' = ""
          /\ reader'.current_run = reader.current_run + 1
          /\ reader'.current_run > max_run
          /\ file_finished(reader')]_vars

\* C21 witness: read_event has returned end-of-stream MaxEos + 1 times in a
\* row after it had returned events.
C21_Witness ==
    /\ eos = MaxEos + 1
    /\ Len(emitted) >= 1
    /\ pc = "read"
    /\ reader.current_run = max_run + MaxEos + 1

\* The highest-numbered output file.
LastFile == CHOOSE n \in DOMAIN out : \A m \in DOMAIN out : m <= n

\* The number of events in the output files 0..n.
RECURSIVE CountThrough(_)
CountThrough(n) == IF n \notin DOMAIN out THEN 0 ELSE Count(out[n]) + CountThrough(n - 1)

\* The last write stored its event as the last one of output file n, took that
\* file to the threshold and so rolled over.
LastWriteRolledOver(n) ==
    /\ n \in DOMAIN out
    /\ Len(written) >= 1
    /\ Count(out[n]) >= 1
    /\ CountThrough(n) = Len(written)
    /\ out[n].events[Count(out[n]) - 1] = stored_event(written[Len(written)])
    /\ file_full(out[n].size, harmonic_size)

\* C22: while events are written and after close, an output file with zero
\* events is the highest-numbered file, and there is one exactly when no event
\* has been written or the last write rolled over; after close it records
\* max_event = 0; every file before the writer's current one, finalized by a
\* rollover, holds at least one event.
C22_EmptyFileIsLast ==
    pc \in {"write", "closed"} =>
       /\ \A n \in DOMAIN out : Count(out[n]) = 0 =>
             /\ n = LastFile /\ n = writer.current_run
             /\ Len(written) = 0 \/ LastWriteRolledOver(n - 1)
             /\ pc = "closed" => out[n].finalized /\ out[n].max_event = 0
       /\ Len(written) = 0 \/ LastWriteRolledOver(LastFile - 1) => Count(out[LastFile]) = 0
       /\ \A n \in DOMAIN out : n < writer.current_run =>
             out[n].finalized /\ Count(out[n]) >= 1

\* C22 witness: a closed writer whose last write of several rolled over, leaving
\* a finalized last file with no event.
C22_Witness ==
    /\ pc = "closed"
    /\ Len(written) >= 2
    /\ writer.current_run >= 1
    /\ Count(out[writer.current_run]) = 0
    /\ out[writer.current_run].finalized
    /\ out[writer.current_run].max_event = 0
    /\ Count(out[writer.current_run - 1]) >= 2

\* C23: a pass of process_scalers that returns an error, whatever rows it had
\* accumulated, leaves scalers.parquet as it was: not created when there was
\* none, not modified when an earlier pass had written one; the file is written,
\* with every row of the pass, only by a pass in which no run gave an error.
C23_WrittenOnlyOnSuccess ==
    [][pc = "scalers" =>
          /\ pc' \in {"done", "failed"}
          /\ pc' = "failed" <=> ~process_scalers(min_run, max_run).ok
          /\ pc' = "failed" => err' # "" /\ scaler_file' = scaler_file
          /\ pc' = "done" => err' = "" /\ scaler_file' = scalers'
          /\ scaler_file' # scaler_file =>
                \A r \in min_run..max_run : scalers_of_run(FileAt(r), r).ok]_vars

\* C23 witness: a pass has failed with rows in its accumulator, and the table an
\* earlier pass wrote is still what it was, none of those rows in it.
C23_Witness ==
    /\ pc = "failed"
    /\ err = "missing scaler record"
    /\ Len(scalers) >= 2
    /\ scaler_file # "none"
    /\ Len(scaler_file) = 1
    /\ scaler_file[1] # scalers[Len(scalers)]

====
